---------------------------- MODULE Spec2Model ----------------------------
(***************************************************************************)
(* chillson: schema-agnostic navigation of an unmarshaled JSON document by *)
(* a bracketed path, "[key][0][field]".  The model covers Son.Get (the     *)
(* path parser and walker), the typed accessors built on it and their     *)
(* panicking Require* variants, as they are written in src/chill.go.      *)
(*                                                                         *)
(* A Go string is a sequence of one-character strings.  A JSON value, as  *)
(* encoding/json decodes it into interface{}, is a record [k, v]: k the   *)
(* dynamic type, v the payload.  A float64 is [tenths, pow]: the number   *)
(* (tenths / 10) * 10^pow, so 42.9 is [tenths |-> 429, pow |-> 0].        *)
(***************************************************************************)
EXTENDS Integers, Sequences, FiniteSets, TLC

VARIABLES
    Data,      \* Son.Data of the wrapper the calls are made on
    parent,    \* the wrapper this one was spawned from, and by which path
    pc,        \* "idle": no call made; "done": a call has ended
    op,        \* the method called last
    path,      \* its path argument
    result     \* how it ended: a return (value, error) or a panic

vars == <<Data, parent, pc, op, path, result>>

----------------------------------------------------------------------------
(* Bounds of the model. *)

\* a path is the concatenation of at most MaxPieces pieces (see Pieces)
MaxPieces == 3

\* in the re-rooting scenario each of the two paths has at most this many
MaxRerootPieces == 2

----------------------------------------------------------------------------
(* JSON values: interface{} as encoding/json produces it. *)

Null == [k |-> "null", v |-> <<>>]
Bool(b) == [k |-> "bool", v |-> b]
Num(t, e) == [k |-> "num", v |-> [tenths |-> t, pow |-> e]]
Str(s) == [k |-> "str", v |-> s]
Arr(s) == [k |-> "arr", v |-> s]
Obj(f) == [k |-> "obj", v |-> f]

\* a native int, as GetInt returns it: n, or a limit of the int range when
\* lim is not "no"
NativeInt(n) == [k |-> "int", v |-> [n |-> n, lim |-> "no"]]
NativeIntLimit(l) == [k |-> "int", v |-> [n |-> 0, lim |-> l]]

\* the nil slice and the nil map the accessors return beside an error
NilArr == [k |-> "nilarr", v |-> <<>>]
NilObj == [k |-> "nilobj", v |-> <<>>]

\* the keys used in the documents, as Go strings
KeyA == <<"a">>
Key0 == <<"0">>
Key1 == <<"1">>
KeyX == <<"x">>

\* {"a": ["joe", {"a": false, "0": 42.9}], "1": "bar", "x": null}
DocNested ==
    Obj((KeyA :> Arr(<<Str("joe"),
                       Obj((KeyA :> Bool(FALSE)) @@ (Key0 :> Num(429, 0)))>>))
        @@ (Key1 :> Str("bar"))
        @@ (KeyX :> Null))

\* [null, -42.9]
DocArr == Arr(<<Null, Num(-429, 0)>>)

\* [1e19]: a float64 beyond the range of a 64-bit int
DocHuge == Arr(<<Num(10, 19)>>)

\* the documents a Son is constructed with
Roots ==
    { DocNested, DocArr, DocHuge, Null, Str("bar"), Num(420, 0), Bool(TRUE),
      Arr(<<>>), Obj(<<>>) }

----------------------------------------------------------------------------
(* Paths. *)

\* what the paths are put together from: whole groups, and the fragments
\* that make malformed paths
Pieces ==
    { <<"[", "a", "]">>, <<"[", "0", "]">>, <<"[", "1", "]">>,
      <<"[", "-", "1", "]">>, <<"[">>, <<"]">>, <<"x">> }

RECURSIVE PathsOf(_)
PathsOf(n) ==
    IF n = 0 THEN { <<>> }
    ELSE LET P == PathsOf(n - 1)
         IN  P \cup { p \o q : p \in P, q \in Pieces }

Paths == PathsOf(MaxPieces)

RerootPaths == PathsOf(MaxRerootPieces)

----------------------------------------------------------------------------
(* chillsonErr and its messages. *)

ErrKinds ==
    { "InvalidPath", "OutOfRange", "ParentNotObject", "FieldNotFound",
      "BadValueType", "NullLeaf" }

\* chillsonErr.Error()
Error(err) ==
    CASE err = "InvalidPath" ->
           "Chillson: cannot parse nonempty value path, did you forget about square brackets?"
      [] err = "OutOfRange" ->
           "Chillson: value's parent seems to be a JSON array, but the index is out of range."
      [] err = "ParentNotObject" ->
           "Chillson: value's parent is neither JSON object nor array."
      [] err = "FieldNotFound" ->
           "Chillson: value's parent seems to be a JSON object, but the field cannot be found."
      [] err = "BadValueType" ->
           "Chillson: retrieved value cannot be converted to the requested type."
      [] err = "NullLeaf" ->
           "Chillson: null leaf encountered in the structure"
      [] OTHER -> "Undefined Chillson error."

\* how a call ends: return (val, nil), return (val, err), or a panic with
\* payload msg
Returned(val) == [kind |-> "ok", val |-> val, err |-> "nil", msg |-> ""]
Failed(val, err) == [kind |-> "err", val |-> val, err |-> err, msg |-> ""]
Panicked(msg) == [kind |-> "panic", val |-> Null, err |-> "nil", msg |-> msg]
NoResult == [kind |-> "none", val |-> Null, err |-> "nil", msg |-> ""]

\* the payload of the Go runtime's panic on leafArr[numIndex], numIndex < 0
IndexPanic == "runtime error: index out of range"

----------------------------------------------------------------------------
(* The regular expression (?:\[([^\[\]]+)\])+? and FindAllString. *)

IsBracket(c) == c \in { "[", "]" }

\* [^\[\]]+ from position j on: the position of the first bracket at or
\* after j, Len(s) + 1 when there is none
RECURSIVE InteriorEnd(_, _)
InteriorEnd(s, j) ==
    IF j > Len(s) THEN j
    ELSE IF IsBracket(s[j]) THEN j
    ELSE InteriorEnd(s, j + 1)

\* MatchAt with the fault of "*" for "+" in the expression: the interior may
\* be empty
MatchAtEmptyInterior(s, i) ==
    IF s[i] # "[" THEN 0
    ELSE LET j == InteriorEnd(s, i + 1)
         IN  IF j <= Len(s) /\ s[j] = "]" THEN j ELSE 0

\* the end of the match that starts at position i, 0 when none does.  The
\* repetition +? is lazy: the match is one group.
MatchAt(s, i) ==
    IF s[i] # "[" THEN 0
    ELSE LET j == InteriorEnd(s, i + 1)
         IN  IF j > i + 1 /\ j <= Len(s) /\ s[j] = "]" THEN j ELSE 0

\* FindAllFrom with the fault of an expression anchored to the text before
\* it: the scan ends where no match starts
RECURSIVE FindAllFromAnchored(_, _)
FindAllFromAnchored(s, i) ==
    IF i > Len(s) THEN <<>>
    ELSE LET j == MatchAt(s, i)
         IN  IF j # 0
             THEN <<SubSeq(s, i, j)>> \o FindAllFromAnchored(s, j + 1)
             ELSE <<>>

\* the successive non-overlapping matches, leftmost first, from i on
RECURSIVE FindAllFrom(_, _)
FindAllFrom(s, i) ==
    IF i > Len(s) THEN <<>>
    ELSE LET j == MatchAt(s, i)
         IN  IF j # 0
             THEN <<SubSeq(s, i, j)>> \o FindAllFrom(s, j + 1)
             ELSE FindAllFrom(s, i + 1)

\* FindAllString with the fault of the greedy "+" for the lazy "+?": a
\* match is a maximal run of adjacent groups
RECURSIVE GreedyEnd(_, _)
GreedyEnd(s, j) ==
    IF j < Len(s) /\ MatchAt(s, j + 1) # 0
    THEN GreedyEnd(s, MatchAt(s, j + 1))
    ELSE j

RECURSIVE FindAllGreedyFrom(_, _)
FindAllGreedyFrom(s, i) ==
    IF i > Len(s) THEN <<>>
    ELSE LET j == MatchAt(s, i)
         IN  IF j # 0
             THEN <<SubSeq(s, i, GreedyEnd(s, j))>>
                      \o FindAllGreedyFrom(s, GreedyEnd(s, j) + 1)
             ELSE FindAllGreedyFrom(s, i + 1)

FindAllStringGreedy(s) == FindAllGreedyFrom(s, 1)

FindAllString(s) == FindAllFrom(s, 1)

----------------------------------------------------------------------------
(* strings.Trim and strconv.Atoi. *)

RECURSIVE TrimLeft(_, _)
TrimLeft(s, cutset) ==
    IF s # <<>> /\ s[1] \in cutset THEN TrimLeft(Tail(s), cutset) ELSE s

RECURSIVE TrimRight(_, _)
TrimRight(s, cutset) ==
    IF s # <<>> /\ s[Len(s)] \in cutset
    THEN TrimRight(SubSeq(s, 1, Len(s) - 1), cutset)
    ELSE s

Trim(s, cutset) == TrimRight(TrimLeft(s, cutset), cutset)

Digits == <<"0", "1", "2", "3", "4", "5", "6", "7", "8", "9">>

IsDigit(c) == \E i \in DOMAIN Digits : Digits[i] = c

DigitVal(c) == (CHOOSE i \in DOMAIN Digits : Digits[i] = c) - 1

RECURSIVE DecimalVal(_, _)
DecimalVal(s, n) ==
    IF s = <<>> THEN n ELSE DecimalVal(Tail(s), n * 10 + DigitVal(s[1]))

\* strconv.Atoi: an optional sign, then digits only and at least one.  The
\* labels of the model are short, so the range error of a number that does
\* not fit in an int does not arise.
Atoi(s) ==
    LET signed == s # <<>> /\ s[1] \in { "+", "-" }
        digits == IF signed THEN Tail(s) ELSE s
    IN  IF digits = <<>> \/ \E i \in DOMAIN digits : ~IsDigit(digits[i])
        THEN [ok |-> FALSE, n |-> 0]
        ELSE [ok |-> TRUE,
              n |-> IF signed /\ s[1] = "-"
                    THEN 0 - DecimalVal(digits, 0)
                    ELSE DecimalVal(digits, 0)]

----------------------------------------------------------------------------
(* Son.Get. *)

\* currLeaf, a *interface{}: nil, or the address of a value
NilPtr == [nil |-> TRUE, at |-> Null]
AddrOf(val) == [nil |-> FALSE, at |-> val]

\* LoopBody with the fault of no fall-through: an integer label on a node
\* that is no array is out of range
LoopBodyNoFallThrough(currLeaf, match) ==
    IF currLeaf.nil THEN [kind |-> "return", ret |-> Failed(Null, "NullLeaf")]
    ELSE
    LET label == Trim(match, { "[", "]" })
        num == Atoi(label)
        node == currLeaf.at
    IN  IF num.ok
        THEN IF node.k = "arr" /\ 0 <= num.n /\ num.n < Len(node.v)
             THEN [kind |-> "continue", leaf |-> AddrOf(node.v[num.n + 1])]
             ELSE [kind |-> "return", ret |-> Failed(Null, "OutOfRange")]
        ELSE IF node.k # "obj"
             THEN [kind |-> "return", ret |-> Failed(Null, "ParentNotObject")]
             ELSE IF label \notin DOMAIN node.v
                  THEN [kind |-> "return", ret |-> Failed(Null, "FieldNotFound")]
                  ELSE [kind |-> "continue", leaf |-> AddrOf(node.v[label])]

\* one pass of the loop over matches: "continue" with the next currLeaf, or
\* "return" with what Get returns, or the panic of the index expression
LoopBody(currLeaf, match) ==
    IF currLeaf.nil THEN [kind |-> "return", ret |-> Failed(Null, "NullLeaf")]
    ELSE
    LET label == Trim(match, { "[", "]" })
        num == Atoi(label)
        node == currLeaf.at
    IN  IF num.ok /\ node.k = "arr"
        THEN IF num.n < Len(node.v)
             THEN IF num.n < 0
                  THEN [kind |-> "return", ret |-> Panicked(IndexPanic)]
                  ELSE [kind |-> "continue", leaf |-> AddrOf(node.v[num.n + 1])]
             ELSE [kind |-> "return", ret |-> Failed(Null, "OutOfRange")]
        ELSE IF node.k # "obj"
             THEN [kind |-> "return", ret |-> Failed(Null, "ParentNotObject")]
             ELSE IF label \notin DOMAIN node.v
                  THEN [kind |-> "return", ret |-> Failed(Null, "FieldNotFound")]
                  ELSE [kind |-> "continue", leaf |-> AddrOf(node.v[label])]

\* the loop from the i-th match on, and the return after it
RECURSIVE Walk(_, _, _)
Walk(currLeaf, matches, i) ==
    IF i > Len(matches) THEN Returned(currLeaf.at)
    ELSE LET r == LoopBody(currLeaf, matches[i])
         IN  IF r.kind = "continue" THEN Walk(r.leaf, matches, i + 1)
             ELSE r.ret

\* Get with the fault of the test len(path) != 0 left out: the empty path
\* is invalid
GetRejectsEmpty(d, p) ==
    LET matches == FindAllString(p)
    IN  IF Len(matches) = 0
        THEN Failed(Null, "InvalidPath")
        ELSE Walk(AddrOf(d), matches, 1)

Get(d, p) ==
    LET matches == FindAllString(p)
    IN  IF Len(matches) = 0 /\ Len(p) # 0
        THEN Failed(Null, "InvalidPath")
        ELSE Walk(AddrOf(d), matches, 1)

----------------------------------------------------------------------------
(* The typed accessors. *)

GetArr(d, p) ==
    LET r == Get(d, p)
    IN  IF r.kind = "panic" THEN r
        ELSE IF r.kind = "err" THEN Failed(NilArr, r.err)
        ELSE IF r.val.k # "arr" THEN Failed(NilArr, "BadValueType")
        ELSE Returned(r.val)

GetBool(d, p) ==
    LET r == Get(d, p)
    IN  IF r.kind = "panic" THEN r
        ELSE IF r.kind = "err" THEN Failed(Bool(FALSE), r.err)
        ELSE IF r.val.k # "bool" THEN Failed(Bool(FALSE), "BadValueType")
        ELSE Returned(r.val)

GetFloat(d, p) ==
    LET r == Get(d, p)
    IN  IF r.kind = "panic" THEN r
        ELSE IF r.kind = "err" THEN Failed(Num(-10, 0), r.err)
        ELSE IF r.val.k # "num" THEN Failed(Num(-10, 0), "BadValueType")
        ELSE Returned(r.val)

\* whether the integer part of the float64 x is an int.  The floats of the
\* documents are either small (pow = 0) or at least 1e19 > 2^63 - 1.
FitsInt(x) == x.pow = 0

\* IntOf with the fault of rounding down instead of towards zero
IntOfFloor(x) ==
    IF FitsInt(x)
    THEN { NativeInt(x.tenths \div 10) }
    ELSE { NativeIntLimit("min"), NativeIntLimit("max") }

\* the conversion int(num): the fraction is discarded (truncation towards
\* zero).  Of a float64 whose integer part is no int the Go specification
\* says the conversion succeeds with an implementation-dependent value: the
\* builds in use give a limit of the int range.
IntOf(x) ==
    IF FitsInt(x)
    THEN { NativeInt(IF x.tenths >= 0 THEN x.tenths \div 10
                     ELSE 0 - ((0 - x.tenths) \div 10)) }
    ELSE { NativeIntLimit("min"), NativeIntLimit("max") }

\* the set of the ways GetInt can end
GetInt(d, p) ==
    LET r == GetFloat(d, p)
    IN  IF r.kind = "panic" THEN { r }
        ELSE IF r.kind = "err" THEN { Failed(NativeInt(-1), r.err) }
        ELSE { Returned(n) : n \in IntOf(r.val.v) }

\* GetStr with the fault of the type assertion made before err is tested
GetStrAssertsFirst(d, p) ==
    LET r == Get(d, p)
    IN  IF r.kind = "panic" THEN r
        ELSE IF r.val.k # "str" THEN Failed(Str(""), "BadValueType")
        ELSE IF r.kind = "err" THEN Failed(Str(""), r.err)
        ELSE Returned(r.val)

GetStr(d, p) ==
    LET r == Get(d, p)
    IN  IF r.kind = "panic" THEN r
        ELSE IF r.kind = "err" THEN Failed(Str(""), r.err)
        ELSE IF r.val.k # "str" THEN Failed(Str(""), "BadValueType")
        ELSE Returned(r.val)

GetObj(d, p) ==
    LET r == Get(d, p)
    IN  IF r.kind = "panic" THEN r
        ELSE IF r.kind = "err" THEN Failed(NilObj, r.err)
        ELSE IF r.val.k # "obj" THEN Failed(NilObj, "BadValueType")
        ELSE Returned(r.val)

----------------------------------------------------------------------------
(* The Require* variants: r is how the checked accessor ended. *)

\* if err != nil { panic(err.Error()) }; return ret
PanicOnErr(r) ==
    IF r.kind = "err" THEN Panicked(Error(r.err)) ELSE r

Require(d, p) == PanicOnErr(Get(d, p))
RequireArr(d, p) == PanicOnErr(GetArr(d, p))
RequireBool(d, p) == PanicOnErr(GetBool(d, p))
RequireFloat(d, p) == PanicOnErr(GetFloat(d, p))
RequireInt(d, p) == { PanicOnErr(r) : r \in GetInt(d, p) }
RequireObj(d, p) == PanicOnErr(GetObj(d, p))
RequireStr(d, p) == PanicOnErr(GetStr(d, p))

----------------------------------------------------------------------------
(* The state machine: a Son is constructed, methods are called on it. *)

NoParent == [spawned |-> FALSE, Data |-> Null, path |-> <<>>]

\* chill := Son{data}
Init ==
    /\ Data \in Roots
    /\ parent = NoParent
    /\ pc = "idle"
    /\ op = "none"
    /\ path = <<>>
    /\ result = NoResult

\* a call of method name with path p that ends as r; a call is made only
\* when none is under way
Call(name, p, r) ==
    /\ pc' = "done"
    /\ op' = name
    /\ path' = p
    /\ result' = r
    /\ UNCHANGED <<Data, parent>>

Idle == pc = "idle"

\* chill.Get(p) with a path of the set P
GetFrom(P) == Idle /\ \E p \in P : Call("Get", p, Get(Data, p))

CallGet == GetFrom(Paths)
CallGetArr == Idle /\ \E p \in Paths : Call("GetArr", p, GetArr(Data, p))
CallGetBool == Idle /\ \E p \in Paths : Call("GetBool", p, GetBool(Data, p))
CallGetFloat == Idle /\ \E p \in Paths : Call("GetFloat", p, GetFloat(Data, p))
CallGetInt ==
    Idle /\ \E p \in Paths : \E r \in GetInt(Data, p) : Call("GetInt", p, r)
CallGetStr == Idle /\ \E p \in Paths : Call("GetStr", p, GetStr(Data, p))
CallGetObj == Idle /\ \E p \in Paths : Call("GetObj", p, GetObj(Data, p))
CallRequire == Idle /\ \E p \in Paths : Call("Require", p, Require(Data, p))
CallRequireArr ==
    Idle /\ \E p \in Paths : Call("RequireArr", p, RequireArr(Data, p))
CallRequireBool ==
    Idle /\ \E p \in Paths : Call("RequireBool", p, RequireBool(Data, p))
CallRequireFloat ==
    Idle /\ \E p \in Paths : Call("RequireFloat", p, RequireFloat(Data, p))
CallRequireInt ==
    Idle /\ \E p \in Paths :
               \E r \in RequireInt(Data, p) : Call("RequireInt", p, r)
CallRequireObj ==
    Idle /\ \E p \in Paths : Call("RequireObj", p, RequireObj(Data, p))
CallRequireStr ==
    Idle /\ \E p \in Paths : Call("RequireStr", p, RequireStr(Data, p))

\* the caller is done with what a call returned; a panic ends the program
Discard ==
    /\ pc = "done"
    /\ result.kind # "panic"
    /\ pc' = "idle"
    /\ op' = "none"
    /\ path' = <<>>
    /\ result' = NoResult
    /\ UNCHANGED <<Data, parent>>

\* chillo := Son{o}: a wrapper of the value a Get on the first wrapper
\* returned
NewSon ==
    /\ pc = "done"
    /\ op = "Get"
    /\ result.kind = "ok"
    /\ ~parent.spawned
    /\ Data' = result.val
    /\ parent' = [spawned |-> TRUE, Data |-> Data, path |-> path]
    /\ pc' = "idle"
    /\ op' = "none"
    /\ path' = <<>>
    /\ result' = NoResult

Next ==
    \/ CallGet
    \/ CallGetArr
    \/ CallGetBool
    \/ CallGetFloat
    \/ CallGetInt
    \/ CallGetStr
    \/ CallGetObj
    \/ CallRequire
    \/ CallRequireArr
    \/ CallRequireBool
    \/ CallRequireFloat
    \/ CallRequireInt
    \/ CallRequireObj
    \/ CallRequireStr
    \/ Discard

Spec == Init /\ [][Next]_vars

\* Get with the paths of the re-rooting scenario
RerootGet == GetFrom(RerootPaths)

\* the scenario of TestGetTyped: Get on a wrapper, a wrapper of the value
\* it returned, Get on that one
NextReroot ==
    \/ RerootGet
    \/ NewSon
    \/ Discard

SpecReroot == Init /\ [][NextReroot]_vars

----------------------------------------------------------------------------
(* What the properties are stated with: the groups of a path, said without *)
(* the scan of FindAllString.                                              *)

\* s[i..j] is a bracketed group: "[", a non-empty interior free of
\* brackets, "]"
IsGroup(s, i, j) ==
    /\ i \in DOMAIN s
    /\ j \in DOMAIN s
    /\ j > i + 1
    /\ s[i] = "["
    /\ s[j] = "]"
    /\ \A m \in (i + 1)..(j - 1) : ~IsBracket(s[m])

HasGroup(s) == \E i, j \in DOMAIN s : IsGroup(s, i, j)

InGroup(s, m) == \E i, j \in DOMAIN s : IsGroup(s, i, j) /\ i <= m /\ m <= j

\* the path with every character outside a group left out
RECURSIVE KeepGroups(_, _)
KeepGroups(s, m) ==
    IF m > Len(s) THEN <<>>
    ELSE (IF InGroup(s, m) THEN <<s[m]>> ELSE <<>>) \o KeepGroups(s, m + 1)

GroupsOnly(s) == KeepGroups(s, 1)

\* the path is empty or nothing but groups
WellFormed(s) == GroupsOnly(s) = s

\* the interiors of the groups, from left to right
RECURSIVE LabelsFrom(_, _)
LabelsFrom(s, i) ==
    IF i > Len(s) THEN <<>>
    ELSE IF \E j \in DOMAIN s : IsGroup(s, i, j)
         THEN LET j == CHOOSE m \in DOMAIN s : IsGroup(s, i, m)
              IN  <<SubSeq(s, i + 1, j - 1)>> \o LabelsFrom(s, i + 1)
         ELSE LabelsFrom(s, i + 1)

Labels(s) == LabelsFrom(s, 1)

\* the path "[l1][l2]..." of the labels ls
RECURSIVE Bracketed(_)
Bracketed(ls) ==
    IF ls = <<>> THEN <<>>
    ELSE <<"[">> \o Head(ls) \o <<"]">> \o Bracketed(Tail(ls))

Front(ls) == SubSeq(ls, 1, Len(ls) - 1)
Last(ls) == ls[Len(ls)]

SameOutcome(a, b) ==
    /\ a.kind = b.kind
    /\ a.err = b.err
    /\ a.msg = b.msg
    /\ a.val = b.val

FailsWith(r, err) == r.kind = "err" /\ r.err = err

\* a Get has ended whose path has a last segment, reached without error:
\* Parent is the node that segment is resolved on
GetDone == pc = "done" /\ op = "Get"
Segments == Labels(path)
Reached == Get(Data, Bracketed(Front(Segments)))
AtLastSegment == GetDone /\ Segments # <<>> /\ Reached.kind = "ok"
ParentNode == Reached.val
LastLabel == Last(Segments)

----------------------------------------------------------------------------
(* The claims. *)

\* C1: a segment whose label parses as an integer i, on a sequence of length
\* n: the walk goes on to element i when 0 <= i < n, and in every other
\* case, i >= n and i negative alike, Get fails with OutOfRange.
C1_IndexOrOutOfRange ==
    (AtLastSegment /\ ParentNode.k = "arr" /\ Atoi(LastLabel).ok) =>
        LET i == Atoi(LastLabel).n
        IN  IF 0 <= i /\ i < Len(ParentNode.v)
            THEN result = Returned(ParentNode.v[i + 1])
            ELSE FailsWith(result, "OutOfRange")

\* C2: a segment that is to be resolved on a null node, the root or a value
\* reached by the segments before it, makes Get fail with NullLeaf.
C2_NullLeafOnNull ==
    (AtLastSegment /\ ParentNode = Null) => FailsWith(result, "NullLeaf")

\* C5: a segment whose label is no integer, or whose node is not a sequence
\* (and not null): ParentNotObject when the node is no object, FieldNotFound
\* when the object lacks the key, the value under the key otherwise.  A
\* numeric label on an object is a key, never OutOfRange.
C5_KeyHandling ==
    (/\ AtLastSegment
     /\ ParentNode # Null
     /\ ~Atoi(LastLabel).ok \/ ParentNode.k # "arr") =>
        IF ParentNode.k # "obj" THEN FailsWith(result, "ParentNotObject")
        ELSE IF LastLabel \notin DOMAIN ParentNode.v
             THEN FailsWith(result, "FieldNotFound")
             ELSE result = Returned(ParentNode.v[LastLabel])

\* a numeric label was looked up as the key of an object, and found
C5_Witness ==
    /\ AtLastSegment
    /\ Atoi(LastLabel).ok
    /\ ParentNode.k = "obj"
    /\ Len(Segments) > 1
    /\ result.kind = "ok"

\* C4: a non-empty path with no bracketed group fails with InvalidPath,
\* whatever the tree.
C4_InvalidPath ==
    (GetDone /\ path # <<>> /\ ~HasGroup(path)) =>
        /\ FailsWith(result, "InvalidPath")
        /\ \A d \in Roots : FailsWith(Get(d, path), "InvalidPath")

\* a path made of brackets only, with no group, was rejected
C4_Witness ==
    /\ GetDone
    /\ ~HasGroup(path)
    /\ \E i, j \in DOMAIN path : i < j /\ path[i] = "[" /\ path[j] = "]"
    /\ FailsWith(result, "InvalidPath")

\* C9: Get("") returns the root unchanged and no error, for every root.
C9_EmptyPath ==
    (GetDone /\ path = <<>>) => result = Returned(Data)

\* the empty path on a null root
C9_Witness == GetDone /\ path = <<>> /\ Data = Null /\ result.kind = "ok"

\* C10: what lies outside the groups of a path is ignored: a path with a
\* group ends as the path of its groups alone does, is never InvalidPath,
\* and the first segment (from the left) that fails decides the error.
C10_OnlyGroupsCount ==
    (GetDone /\ HasGroup(path)) =>
        /\ SameOutcome(result, Get(Data, GroupsOnly(path)))
        /\ ~FailsWith(result, "InvalidPath")
        /\ \A n \in 1..Len(Segments) :
              LET upTo == Get(Data, Bracketed(SubSeq(Segments, 1, n)))
              IN  upTo.kind # "ok" => SameOutcome(result, upTo)

\* two segments with text outside them were resolved
C10_Witness ==
    /\ GetDone
    /\ Len(Segments) = 2
    /\ ~WellFormed(path)
    /\ result.kind = "ok"
    /\ result.val # Data

\* the dynamic type each typed accessor asserts
Typed ==
    [GetArr |-> "arr", GetBool |-> "bool", GetFloat |-> "num",
     GetStr |-> "str", GetObj |-> "obj"]

\* C6: GetStr, GetFloat, GetBool, GetObj, GetArr: the error of Get when Get
\* fails; the value when Get succeeds with a value of the asserted type;
\* BadValueType when it succeeds with any other value, null included.
C6_TypedAccessors ==
    (pc = "done" /\ op \in DOMAIN Typed) =>
        LET got == Get(Data, path)
        IN  /\ got.kind = "err" => FailsWith(result, got.err)
            /\ got.kind = "err" => got.err # "BadValueType"
            /\ (got.kind = "ok" /\ got.val.k = Typed[op]) =>
                  result = Returned(got.val)
            /\ (got.kind = "ok" /\ got.val.k # Typed[op]) =>
                  FailsWith(result, "BadValueType")

\* an accessor met a null at the end of a path with a segment
C6_Witness ==
    /\ pc = "done"
    /\ op \in DOMAIN Typed
    /\ Labels(path) # <<>>
    /\ Get(Data, path) = Returned(Null)
    /\ FailsWith(result, "BadValueType")

\* n is the integer part of the number of tenths t: t / 10 with the
\* fraction dropped
IsIntegerPart(n, t) ==
    IF t >= 0 THEN 10 * n <= t /\ t < 10 * n + 10
    ELSE 10 * n - 10 < t /\ t <= 10 * n

\* C7 as claimed: GetInt fails as GetFloat fails, and on every number x it
\* returns the integer part of x.
C7_TruncatesEveryNumber ==
    (pc = "done" /\ op = "GetInt") =>
        LET f == GetFloat(Data, path)
        IN  /\ f.kind = "err" => FailsWith(result, f.err)
            /\ f.kind = "ok" =>
                  /\ result.kind = "ok"
                  /\ result.val.k = "int"
                  /\ result.val.v.lim = "no"
                  /\ FitsInt(f.val.v)
                  /\ IsIntegerPart(result.val.v.n, f.val.v.tenths)

\* C7, amended: GetInt fails as GetFloat fails, and on a number x whose
\* integer part is an int it returns that integer part, never a rounded
\* value.
C7_TruncatesWhatFits ==
    (pc = "done" /\ op = "GetInt") =>
        LET f == GetFloat(Data, path)
        IN  /\ f.kind = "err" => FailsWith(result, f.err)
            /\ f.kind = "ok" => result.kind = "ok" /\ result.val.k = "int"
            /\ (f.kind = "ok" /\ FitsInt(f.val.v)) =>
                  /\ result.val.v.lim = "no"
                  /\ IsIntegerPart(result.val.v.n, f.val.v.tenths)

\* -42.9 was read as -42
C7_Witness ==
    /\ pc = "done"
    /\ op = "GetInt"
    /\ GetFloat(Data, path) = Returned(Num(-429, 0))
    /\ result = Returned(NativeInt(-42))

\* the ways the checked counterpart of a Require* method can end
Checked(name) ==
    CASE name = "Require" -> { Get(Data, path) }
      [] name = "RequireArr" -> { GetArr(Data, path) }
      [] name = "RequireBool" -> { GetBool(Data, path) }
      [] name = "RequireFloat" -> { GetFloat(Data, path) }
      [] name = "RequireInt" -> GetInt(Data, path)
      [] name = "RequireObj" -> { GetObj(Data, path) }
      [] name = "RequireStr" -> { GetStr(Data, path) }
      [] OTHER -> {}

RequireNames ==
    { "Require", "RequireArr", "RequireBool", "RequireFloat", "RequireInt",
      "RequireObj", "RequireStr" }

\* C8: a Require* method panics if and only if its checked counterpart
\* returns an error, with that error's message as the payload, and returns
\* the counterpart's value when that succeeds.
C8_RequirePanicsIffError ==
    (pc = "done" /\ op \in RequireNames) =>
        \E c \in Checked(op) :
            /\ result.kind = "panic" <=> c.kind = "err"
            /\ c.kind = "err" => result.msg = Error(c.err)
            /\ c.kind = "ok" => result = Returned(c.val)

\* C3: re-rooting composes, for every pair of paths: Get(p2) on a wrapper
\* of the value of Get(p1) ends as Get(p1 p2) on the first wrapper does.
C3_RerootComposes ==
    (GetDone /\ parent.spawned) =>
        SameOutcome(result, Get(parent.Data, parent.path \o path))

\* C3, amended: it composes when p2 is empty or nothing but bracketed
\* groups.
C3_RerootComposesWellFormed ==
    (GetDone /\ parent.spawned /\ WellFormed(path)) =>
        SameOutcome(result, Get(parent.Data, parent.path \o path))

\* a segment was resolved on a wrapper of a value reached by a segment
C3_Witness ==
    /\ GetDone
    /\ parent.spawned
    /\ WellFormed(path)
    /\ Len(Labels(path)) = 1
    /\ Len(Labels(parent.path)) = 1
    /\ ~WellFormed(parent.path)
    /\ result.kind = "ok"

============================================================================
